---- MODULE Spec2Model ----
(***************************************************************************)
(* A model of repo-details-group.py: the configuration merge, the loop of  *)
(* main over the repository names, the AQL request, and the pipeline       *)
(* process_results -> remove_timezone -> write_to_excel.                   *)
(*                                                                         *)
(* Conventions.  A Python string is a sequence of one-character strings    *)
(* ("a,b" is <<"a", ",", "b">>), so that split and the file name are       *)
(* computed and not assumed.  A value that may be None is a record         *)
(* [some, val].  A dict is a record whose DOMAIN is its set of keys, and   *)
(* d.get(k, default) is Get(d, k, default).  A timestamp cell of a         *)
(* DataFrame column is a record [k, aware, off, wall]: wall is the wall    *)
(* clock reading in months (year = wall \div 12, month = wall % 12 + 1),   *)
(* off the UTC offset of a timezone-aware value.  A raised exception is    *)
(* the field exc of an operator's result ("" when nothing was raised).     *)
(*                                                                         *)
(* Not modelled: the columns path, type, size, modified_by and updated     *)
(* (read with .get and copied, with size_in_gb derived from size), which   *)
(* no aggregation modelled here reads, and the content of the chart        *)
(* images.                                                                 *)
(***************************************************************************)
EXTENDS Integers, Sequences, FiniteSets, TLC

VARIABLES
    argv,       \* the command-line flags, each given or absent
    environ,    \* the environment values (after load_dotenv), each set or unset
    config,     \* what get_configuration returned to main
    pc,         \* main's position
    idx,        \* position of the loop of main in repository_names
    result,     \* what execute_aql_query returned for the current name
    df,         \* the DataFrame of the current name
    status,     \* per position of repository_names: the response and the outcome
    posts,      \* the POST requests issued, in order
    files,      \* the report writes, in order: file name and what was written
    clock,      \* the wall clock, in minutes
    printed     \* the diagnostics printed by main and execute_aql_query

vars == <<argv, environ, config, pc, idx, result, df, status, posts, files,
          clock, printed>>

-----------------------------------------------------------------------------
(* Bounds of the model *)

\* longest REPOSITORY_NAMES environment string
MaxEnvLen == 3
\* last minute the clock reaches
MaxClock == 1
\* largest download count of an item (the bins end at 50, so 52 is past all)
MaxDownloads == 52
\* most items in a response whose items differ in their usage statistics
MaxStatItems == 2
\* most items in a response whose items differ in their download count
MaxCountItems == 2
\* most items in a response whose items differ in their timestamps
MaxTzItems == 2
\* most items in a response whose items differ in upload month and uploader
MaxLayoutItems == 3

-----------------------------------------------------------------------------
(* Python values *)

NoneV == [some |-> FALSE, val |-> <<>>]

Some(v) == [some |-> TRUE, val |-> v]

\* d.get(k, default)
Get(d, k, default) == IF k \in DOMAIN d THEN d[k] ELSE default

\* d.get(k), None when the key is absent
GetOpt(d, k) == IF k \in DOMAIN d THEN Some(d[k]) ELSE NoneV

\* `not v` for a value that is None or a string or a list
Falsy(v) == ~v.some \/ v.val = <<>>

EmptyDict == [k \in {} |-> k]

RECURSIVE SplitFrom(_, _, _)
\* s.split(sep) with `cur` the piece being read: always at least one piece
SplitFrom(s, sep, cur) ==
    IF s = <<>> THEN <<cur>>
    ELSE IF Head(s) = sep THEN <<cur>> \o SplitFrom(Tail(s), sep, <<>>)
    ELSE SplitFrom(Tail(s), sep, Append(cur, Head(s)))

Split(s, sep) == SplitFrom(s, sep, <<>>)

\* the sequences over S of length at most n
SeqsUpTo(S, n) == UNION {[1..m -> S] : m \in 0..n}

-----------------------------------------------------------------------------
(* get_configuration *)

NoConfig ==
    [exc |-> "", artifactory_url |-> <<>>, username |-> <<>>,
     password |-> <<>>, repository_names |-> <<>>]

\* argparse: the flag's value when the flag is given, else the default
ArgOrDefault(flag, default) == IF flag.some THEN flag ELSE default

\* the default of --repository-names, from REPOSITORY_NAMES
repository_names_default(env) ==
    IF ~env.REPOSITORY_NAMES.some THEN Some(<<>>)
    ELSE Some(Split(env.REPOSITORY_NAMES.val, ","))

\* args, after parser.parse_args()
parse_args(av, env) ==
    [artifactory_url  |-> ArgOrDefault(av.artifactory_url, env.ARTIFACTORY_URL),
     username         |-> ArgOrDefault(av.username, env.USERNAME),
     password         |-> ArgOrDefault(av.password, env.PASSWORD),
     repository_names |-> ArgOrDefault(av.repository_names,
                                       repository_names_default(env))]

\* the check without the password
get_configuration_no_password_check(av, env) ==
    LET args == parse_args(av, env)
    IN  IF Falsy(args.artifactory_url) \/ Falsy(args.username)
           \/ Falsy(args.repository_names)
        THEN [NoConfig EXCEPT !.exc = "ValueError"]
        ELSE [exc |-> "",
              artifactory_url  |-> args.artifactory_url.val,
              username         |-> args.username.val,
              password         |-> args.password.val,
              repository_names |-> args.repository_names.val]

get_configuration(av, env) ==
    LET args == parse_args(av, env)
    IN  IF Falsy(args.artifactory_url) \/ Falsy(args.username)
           \/ Falsy(args.password) \/ Falsy(args.repository_names)
        THEN [NoConfig EXCEPT !.exc = "ValueError"]
        ELSE [exc |-> "",
              artifactory_url  |-> args.artifactory_url.val,
              username         |-> args.username.val,
              password         |-> args.password.val,
              repository_names |-> args.repository_names.val]

-----------------------------------------------------------------------------
(* generate_aql_query and the request of execute_aql_query *)

IncludeFields ==
    <<"name", "repo", "path", "type", "size", "created", "created_by",
      "modified", "modified_by", "updated", "stat">>

generate_aql_query(repository_name) ==
    [find_repo |-> repository_name, include |-> IncludeFields]

\* the request execute_aql_query sends
PostRequest(aql_query, artifactory_url, username, password) ==
    [url  |-> artifactory_url \o <<"/api/search/aql">>,
     auth |-> <<username, password>>,
     data |-> aql_query]

-----------------------------------------------------------------------------
(* Timestamp cells, pd.to_datetime(errors='coerce') and the .dt accessor *)

Cell(kind, aware, off, wall) ==
    [k |-> kind, aware |-> aware, off |-> off, wall |-> wall]

NoneCell == Cell("None", FALSE, 0, 0)

\* a string that is no date
BadStr == Cell("str_bad", FALSE, 0, 0)

\* a date string, with a UTC offset (aware) or without one
DateStr(aware, off, wall) == Cell("str", aware, off, wall)

NaT == Cell("NaT", FALSE, 0, 0)

Timestamp(aware, off, wall) == Cell("Timestamp", aware, off, wall)

IsTimestamp(c) == c.k = "Timestamp"

\* only strings are parsed: a value that already is a datetime is coerced to NaT
to_datetime_value_strings_only(c) ==
    IF c.k = "str" THEN Timestamp(c.aware, c.off, c.wall) ELSE NaT

\* one value under errors='coerce': what does not parse becomes NaT
to_datetime_value(c) ==
    IF c.k = "str" THEN Timestamp(c.aware, c.off, c.wall)
    ELSE IF c.k = "Timestamp" THEN c
    ELSE NaT

to_datetime(col) == [i \in DOMAIN col |-> to_datetime_value(col[i])]

\* the timezones of the values of a converted column
Timezones(col) ==
    {<<col[i].aware, col[i].off>> : i \in {j \in DOMAIN col : IsTimestamp(col[j])}}

\* A column whose values disagree on the timezone stays of dtype object,
\* and the .dt accessor raises AttributeError on it.
IsDatetimeDtype(col) == Cardinality(Timezones(col)) <= 1

\* col.dt.tz is not None
HasTz(col) == \E tz \in Timezones(col) : tz[1]

\* col.dt.tz_localize(None): the wall clock reading is kept, the offset dropped
tz_localize_none(col) ==
    [i \in DOMAIN col |->
        IF IsTimestamp(col[i]) THEN Timestamp(FALSE, 0, col[i].wall) ELSE col[i]]

-----------------------------------------------------------------------------
(* DataFrames: the set of columns and the rows; a frame built from an     *)
(* empty list has no columns.                                              *)

AllColumns ==
    {"repo", "name", "created", "created_by", "modified", "downloads",
     "downloaded_by", "last_downloaded"}

NoFrame == [columns |-> {}, rows |-> <<>>]

\* pd.DataFrame(list of dicts)
DataFrame(records) ==
    [columns |-> IF records = <<>> THEN {} ELSE AllColumns, rows |-> records]

Column(frame, name) == [i \in DOMAIN frame.rows |-> frame.rows[i][name]]

\* df[name] = col
SetColumn(frame, name, col) ==
    [columns |-> frame.columns \cup {name},
     rows    |-> [i \in DOMAIN frame.rows |->
                     [frame.rows[i] EXCEPT ![name] = col[i]]]]

Raised(e) == [exc |-> e, df |-> NoFrame]

Returned(frame) == [exc |-> "", df |-> frame]

-----------------------------------------------------------------------------
(* process_results *)

\* item.get("stats", [{}]): the list of usage-stat entries
StatsOf(item) == Get(item, "stats", <<EmptyDict>>)

\* an expression item.get("stats", [{}])[0] raises IndexError on an empty list
StatsRaise(item) == StatsOf(item) = <<>>

ProcessedRow(item) ==
    [repo            |-> GetOpt(item, "repo"),
     name            |-> GetOpt(item, "name"),
     created         |-> Get(item, "created", NoneCell),
     created_by      |-> GetOpt(item, "created_by"),
     modified        |-> Get(item, "modified", NoneCell),
     downloads       |-> Get(StatsOf(item)[1], "downloads", 0),
     downloaded_by   |-> Get(StatsOf(item)[1], "downloaded_by", "N/A"),
     last_downloaded |-> Get(StatsOf(item)[1], "downloaded", "N/A")]

\* result is the decoded body, a dict here
process_results(body) ==
    LET items == Get(body, "results", <<>>)
    IN  IF \E i \in DOMAIN items : StatsRaise(items[i])
        THEN Raised("IndexError")
        ELSE LET frame == DataFrame([i \in DOMAIN items |-> ProcessedRow(items[i])])
             IN  IF "created" \in frame.columns
                 THEN Returned(SetColumn(frame, "created",
                                         to_datetime(Column(frame, "created"))))
                 ELSE Returned(frame)

-----------------------------------------------------------------------------
(* remove_timezone *)

remove_timezone(frame) ==
    IF "created" \notin frame.columns THEN Raised("KeyError")
    ELSE LET created == to_datetime(Column(frame, "created"))
             f1      == SetColumn(frame, "created", created)
         IN  IF "modified" \notin f1.columns THEN Raised("KeyError")
             ELSE LET modified == to_datetime(Column(f1, "modified"))
                      f2       == SetColumn(f1, "modified", modified)
                  IN  IF ~IsDatetimeDtype(created) THEN Raised("AttributeError")
                      ELSE LET f3 == IF HasTz(created)
                                     THEN SetColumn(f2, "created",
                                                    tz_localize_none(created))
                                     ELSE f2
                           IN  IF ~IsDatetimeDtype(modified)
                               THEN Raised("AttributeError")
                               ELSE IF HasTz(modified)
                                    THEN Returned(SetColumn(f3, "modified",
                                                   tz_localize_none(modified)))
                                    ELSE Returned(f3)

-----------------------------------------------------------------------------
(* write_to_excel: the derived tables *)

Year(c) == c.wall \div 12

Month(c) == (c.wall % 12) + 1

\* the bin edges of pd.cut; the last bin has no upper edge (float('inf'))
Bins == <<0, 10, 20, 30, 40, 50>>

Labels == <<"1-10", "11-20", "21-30", "31-40", "41-50", "50+">>

\* d lies in bin i, taken closed on the left: [edge, next edge)
InBinLeftClosed(i, d) ==
    /\ Bins[i] <= d
    /\ (i < Len(Bins) => d < Bins[i + 1])

\* d lies in bin i: pd.cut's bins are open on the left and closed on the
\* right, (edge, next edge]
InBin(i, d) ==
    /\ Bins[i] < d
    /\ (i < Len(Bins) => d <= Bins[i + 1])

\* the label pd.cut gives d, "NaN" when d is in no bin
cut(d) ==
    IF \E i \in DOMAIN Labels : InBin(i, d)
    THEN Labels[CHOOSE i \in DOMAIN Labels : InBin(i, d)]
    ELSE "NaN"

\* df.groupby(download_ranges)['downloads'].count(): one row per label
download_summary(frame) ==
    [i \in DOMAIN Labels |->
        [downloads |-> Labels[i],
         Count     |-> Cardinality({r \in DOMAIN frame.rows :
                                      cut(frame.rows[r].downloads) = Labels[i]})]]

\* the rows whose created is a time (NaT is in no group)
Dated(frame) == {r \in DOMAIN frame.rows : IsTimestamp(frame.rows[r].created)}

\* df.groupby('year').agg(num_not_downloaded=('name', 'count'), ...)
yearly_summary(frame) ==
    {[year |-> y,
      num_not_downloaded |->
          Cardinality({r \in Dated(frame) : /\ Year(frame.rows[r].created) = y
                                            /\ frame.rows[r].name.some})] :
        y \in {Year(frame.rows[r].created) : r \in Dated(frame)}}

\* df['created'].dt.strftime('%b %Y'): the month and the year
MonthYear(c) == <<Month(c), Year(c)>>

\* df.groupby('month_year').agg(monthly_upload_count=('name', 'count'))
monthly_uploads(frame) ==
    {[month_year |-> my,
      monthly_upload_count |->
          Cardinality({r \in Dated(frame) : /\ MonthYear(frame.rows[r].created) = my
                                            /\ frame.rows[r].name.some})] :
        my \in {MonthYear(frame.rows[r].created) : r \in Dated(frame)}}

\* df['created_by'].value_counts(): None is not counted
uploads_by_user(frame) ==
    {[User |-> u,
      Upload_Count |-> Cardinality({r \in DOMAIN frame.rows :
                                      frame.rows[r].created_by = u})] :
        u \in {frame.rows[r].created_by :
                 r \in {q \in DOMAIN frame.rows : frame.rows[q].created_by.some}}}

\* summary_data: one row of summary_df per key
summary_data(frame) ==
    [Zero_Downloads  |-> Cardinality({r \in DOMAIN frame.rows :
                                        frame.rows[r].downloads = 0}),
     Yearly_Uploads  |-> {<<y, Cardinality({r \in Dated(frame) :
                                Year(frame.rows[r].created) = y})>> :
                            y \in {Year(frame.rows[r].created) : r \in Dated(frame)}},
     Uploads_By_User |-> {<<t.User, t.Upload_Count>> : t \in uploads_by_user(frame)}]

-----------------------------------------------------------------------------
(* write_to_excel: the file name *)

Digit(n) == <<"0", "1", "2", "3", "4", "5", "6", "7", "8", "9">>[n + 1]

\* the day the model's clock runs in, as %Y, %b and %d print it
Today == <<"2", "0", "2", "6", "N", "o", "v", "0", "2">>

\* datetime.now().strftime('%Y%b%dT%H%MHZ') at minute `now` of the day
strftime(now) ==
    Today \o <<"T">>
          \o <<Digit((now \div 60) \div 10), Digit((now \div 60) % 10)>>
          \o <<Digit((now % 60) \div 10), Digit((now % 60) % 10)>>
          \o <<"H", "Z">>

Suffix == <<"-", "s", "t", "a", "t", "s", ".", "x", "l", "s", "x">>

\* the file name without the repository name
filename_without_repository(repository_name, timestamp) ==
    timestamp \o Suffix

\* f"{repository_name}-{timestamp}-stats.xlsx"
filename(repository_name, timestamp) ==
    repository_name \o <<"-">> \o timestamp \o Suffix

-----------------------------------------------------------------------------
(* write_to_excel: the rows of the Summary sheet *)

\* the last offset forgets the monthly table
startrows_forgetting_monthly(nsummary, ndownload, nyearly, nmonthly) ==
    [summary  |-> 0,
     download |-> nsummary + 2,
     yearly   |-> nsummary + ndownload + 4,
     monthly  |-> nsummary + ndownload + nyearly + 6,
     by_user  |-> nsummary + ndownload + nyearly + 8]

\* the startrow of each to_excel call on the Summary sheet
startrows(nsummary, ndownload, nyearly, nmonthly) ==
    [summary  |-> 0,
     download |-> nsummary + 2,
     yearly   |-> nsummary + ndownload + 4,
     monthly  |-> nsummary + ndownload + nyearly + 6,
     by_user  |-> nsummary + ndownload + nyearly + nmonthly + 8]

\* what write_to_excel puts in the workbook, up to the charts
write_to_excel(frame, repository_name, now) ==
    IF "created" \notin frame.columns
    THEN [exc |-> "KeyError"]
    ELSE LET start == startrows(Cardinality(DOMAIN summary_data(frame)),
                                Len(download_summary(frame)),
                                Cardinality(yearly_summary(frame)),
                                Cardinality(monthly_uploads(frame)))
         IN  [exc              |-> "",
              filename         |-> filename(repository_name, strftime(now)),
              repository_name  |-> repository_name,
              timestamp        |-> strftime(now),
              data             |-> frame,
              summary          |-> summary_data(frame),
              download_summary |-> download_summary(frame),
              yearly_summary   |-> yearly_summary(frame),
              monthly_uploads  |-> monthly_uploads(frame),
              uploads_by_user  |-> uploads_by_user(frame),
              startrow         |-> start]

\* A chart of an empty table: whether the plotting library raises on it is
\* not decided by this program, so both outcomes are taken.
ChartsMayRaise(report) ==
    \/ report.yearly_summary = {}
    \/ report.monthly_uploads = {}
    \/ report.uploads_by_user = {}

-----------------------------------------------------------------------------
(* The inputs: flags, environment, and what the search API answers *)

\* a value the flags and the environment give for the URL, the user name and
\* the password: unset, set to the empty string, set
ScalarInputs == {NoneV, Some(<<>>), Some(<<"x">>)}

\* the strings REPOSITORY_NAMES takes in the runs of main
EnvNameStrings == SeqsUpTo({"a", ","}, MaxEnvLen)

AllSet ==
    [ARTIFACTORY_URL |-> Some(<<"h">>), USERNAME |-> Some(<<"u">>),
     PASSWORD |-> Some(<<"p">>), REPOSITORY_NAMES |-> Some(<<"a">>)]

NoFlags ==
    [artifactory_url |-> NoneV, username |-> NoneV, password |-> NoneV,
     repository_names |-> NoneV]

Entry(d) == [downloads |-> d, downloaded_by |-> "u2", downloaded |-> "t1"]

\* an item as the search API returns it, with all the fields read here
GoodItem ==
    [repo |-> <<"a">>, name |-> "f1", created |-> DateStr(TRUE, 0, 0),
     created_by |-> "u1", modified |-> DateStr(TRUE, 0, 1),
     stats |-> <<Entry(3)>>]

\* item without the keys in `dropped`
Without(item, dropped) == [k \in (DOMAIN item) \ dropped |-> item[k]]

\* the decoded bodies of a 2xx response in the runs of main: JSON null, {},
\* no item, one item, one item with an empty stats list, one item with no
\* created and no created_by
MainBodies ==
    {NoneV, Some(EmptyDict), Some([results |-> <<>>]),
     Some([results |-> <<GoodItem>>]),
     Some([results |-> <<[GoodItem EXCEPT !.stats = <<>>]>>]),
     Some([results |-> <<Without(GoodItem, {"created", "created_by"})>>])}

\* items that differ in the shape of their usage statistics
StatItems ==
    {GoodItem,
     Without(GoodItem, {"stats"}),
     [GoodItem EXCEPT !.stats = <<>>],
     [GoodItem EXCEPT !.stats = <<EmptyDict>>],
     [GoodItem EXCEPT !.stats = <<[downloads |-> 7]>>]}

\* items that differ in their download count
CountItems == {[GoodItem EXCEPT !.stats = <<Entry(d)>>] : d \in 0..MaxDownloads}

\* the values of created and modified in a response; "absent" is no key
RawTimes ==
    {BadStr, DateStr(FALSE, 0, 0), DateStr(FALSE, 0, 1),
     DateStr(TRUE, 0, 0), DateStr(TRUE, 1, 1)}

WithTimes(c, m) == [GoodItem EXCEPT !.created = c, !.modified = m]

\* items that differ in created and modified
TzItems ==
    {WithTimes(c, m) : c \in RawTimes, m \in RawTimes}
    \cup {Without(WithTimes(c, c), {"created"}) : c \in RawTimes}
    \cup {Without(WithTimes(c, c), {"modified"}) : c \in RawTimes}
    \cup {Without(GoodItem, {"created", "modified"})}

\* items that differ in upload month and uploader
LayoutItems ==
    LET dated == {[GoodItem EXCEPT !.created = DateStr(TRUE, 0, w),
                                   !.created_by = u] :
                    w \in {0, 1, 12}, u \in {"u1", "u2"}}
    IN  dated \cup {Without(i, {"created"}) : i \in dated}
              \cup {Without(i, {"created_by"}) : i \in dated}

\* the result lists the pipeline is run on, by what their items differ in;
\* the lists of download counts are taken in ascending order (no table of
\* write_to_excel depends on the order of the rows)
DataResults(family) ==
    IF family = "stats" THEN SeqsUpTo(StatItems, MaxStatItems)
    ELSE IF family = "counts"
    THEN {r \in SeqsUpTo(CountItems, MaxCountItems) :
            \A i \in DOMAIN r : \A j \in DOMAIN r :
                i < j => r[i].stats[1].downloads <= r[j].stats[1].downloads}
    ELSE IF family = "times" THEN SeqsUpTo(TzItems, MaxTzItems)
    ELSE SeqsUpTo(LayoutItems, MaxLayoutItems)

-----------------------------------------------------------------------------
(* main *)

Pending == [resp |-> "none", outcome |-> "pending", exc |-> "", returned |-> NoneV]

Say(msg, repository_name) == [msg |-> msg, repo |-> repository_name]

\* `if result:` a dict is true when it has a key, None is false
Truthy(r) == r.some /\ DOMAIN r.val # {}

repository_name == config.repository_names[idx]

\* the loop variable moves to the next name
NextName == idx' = idx + 1 /\ pc' = "loop"

\* main, line 224
GetConfiguration ==
    /\ pc = "start"
    /\ LET c == get_configuration(argv, environ)
       IN  /\ config' = c
           /\ IF c.exc # ""
              THEN pc' = "config_error" /\ status' = status
              ELSE /\ pc' = "loop"
                   /\ status' = [i \in DOMAIN c.repository_names |-> Pending]
    /\ UNCHANGED <<argv, environ, idx, result, df, posts, files, clock, printed>>

\* main, lines 226-232, and execute_aql_query up to requests.post
IssuePost ==
    /\ pc = "loop"
    /\ idx <= Len(config.repository_names)
    /\ posts' = Append(posts,
                   [idx     |-> idx,
                    request |-> PostRequest(generate_aql_query(repository_name),
                                            config.artifactory_url,
                                            config.username, config.password)])
    /\ printed' = Append(printed, Say("Processing repository", repository_name))
    /\ pc' = "awaiting"
    /\ UNCHANGED <<argv, environ, config, idx, result, df, status, files, clock>>

\* what execute_aql_query returns, and what the response was
Returns(resp, value) ==
    /\ result' = value
    /\ status' = [status EXCEPT ![idx].resp = resp, ![idx].returned = value]
    /\ pc' = "returned"
    /\ UNCHANGED <<argv, environ, config, idx, df, posts, files, clock>>

\* requests.post raises (connection refused, timeout, ...): caught
RespondTransportError ==
    /\ pc = "awaiting"
    /\ printed' = Append(printed, Say("Error executing AQL query", repository_name))
    /\ Returns("transport_error", NoneV)

\* a non-2xx response: raise_for_status raises HTTPError: caught
RespondHttpError ==
    /\ pc = "awaiting"
    /\ printed' = Append(printed, Say("Error executing AQL query", repository_name))
    /\ Returns("http_error", NoneV)

\* a 2xx response: response.json() is returned
RespondOk ==
    /\ pc = "awaiting"
    /\ \E body \in MainBodies : Returns("ok", body)
    /\ printed' = printed

\* the else branch retried: the loop variable stays
SkipReportAndRetry ==
    /\ pc = "returned"
    /\ ~Truthy(result)
    /\ printed' = Append(printed, Say("Failed to retrieve data", repository_name))
    /\ status' = [status EXCEPT ![idx].outcome = "skipped"]
    /\ pc' = "loop"
    /\ UNCHANGED <<argv, environ, config, idx, result, df, posts, files, clock>>

\* main, lines 234 and 238-239: the else branch
SkipReport ==
    /\ pc = "returned"
    /\ ~Truthy(result)
    /\ printed' = Append(printed, Say("Failed to retrieve data", repository_name))
    /\ status' = [status EXCEPT ![idx].outcome = "skipped"]
    /\ NextName
    /\ UNCHANGED <<argv, environ, config, result, df, posts, files, clock>>

\* an exception no handler catches ends main
Raise(e) ==
    /\ status' = [status EXCEPT ![idx].outcome = "raised", ![idx].exc = e]
    /\ pc' = "raised"

\* main, lines 234-235
ProcessResults ==
    /\ pc = "returned"
    /\ Truthy(result)
    /\ LET r == process_results(result.val)
       IN  IF r.exc # ""
           THEN Raise(r.exc) /\ UNCHANGED <<df, printed>>
           ELSE /\ df' = r.df
                /\ pc' = "processed"
                /\ status' = status
                /\ printed' = IF "created" \in r.df.columns THEN printed
                              ELSE Append(printed,
                                     Say("Warning: 'created' column is missing.",
                                         repository_name))
    /\ UNCHANGED <<argv, environ, config, idx, result, posts, files, clock>>

\* main, line 236
RemoveTimezone ==
    /\ pc = "processed"
    /\ LET r == remove_timezone(df)
       IN  IF r.exc # ""
           THEN Raise(r.exc) /\ df' = df
           ELSE df' = r.df /\ pc' = "normalized" /\ status' = status
    /\ UNCHANGED <<argv, environ, config, idx, result, posts, files, clock, printed>>

\* main, line 237.  The workbook is saved when the with block is left, also
\* when a chart raised inside it.
WriteToExcel ==
    /\ pc = "normalized"
    /\ LET w == write_to_excel(df, repository_name, clock)
       IN  IF w.exc # ""
           THEN Raise(w.exc) /\ UNCHANGED <<idx, files, printed>>
           ELSE /\ files' = Append(files, [idx |-> idx, written_at |-> clock,
                                            report |-> w])
                /\ \/ /\ status' = [status EXCEPT ![idx].outcome = "written"]
                      /\ printed' = Append(printed,
                                       Say("Excel file created successfully",
                                           repository_name))
                      /\ NextName
                   \/ /\ ChartsMayRaise(w)
                      /\ Raise("PlotError")
                      /\ UNCHANGED <<idx, printed>>
    /\ UNCHANGED <<argv, environ, config, result, df, posts, clock>>

\* the for loop is exhausted
Finish ==
    /\ pc = "loop"
    /\ idx > Len(config.repository_names)
    /\ pc' = "done"
    /\ UNCHANGED <<argv, environ, config, idx, result, df, status, posts, files,
                   clock, printed>>

\* a minute passes while main runs
Tick ==
    /\ pc \notin {"start", "config_error", "raised", "done"}
    /\ clock < MaxClock
    /\ clock' = clock + 1
    /\ UNCHANGED <<argv, environ, config, pc, idx, result, df, status, posts,
                   files, printed>>

Start(av, env) ==
    /\ argv = av
    /\ environ = env
    /\ config = NoConfig
    /\ pc = "start"
    /\ idx = 1
    /\ result = NoneV
    /\ df = NoFrame
    /\ status = <<>>
    /\ posts = <<>>
    /\ files = <<>>
    /\ clock = 0
    /\ printed = <<>>

\* the runs of main: URL, user name and password set in the environment,
\* the names from REPOSITORY_NAMES or from --repository-names
Init ==
    \/ \E s \in EnvNameStrings :
          Start(NoFlags, [AllSet EXCEPT !.REPOSITORY_NAMES = Some(s)])
    \/ Start([NoFlags EXCEPT !.repository_names = Some(<<<<"a">>, <<"b">>, <<"a">>>>)],
             [AllSet EXCEPT !.REPOSITORY_NAMES = NoneV])

Next ==
    \/ GetConfiguration
    \/ IssuePost
    \/ RespondTransportError
    \/ RespondHttpError
    \/ RespondOk
    \/ SkipReport
    \/ ProcessResults
    \/ RemoveTimezone
    \/ WriteToExcel
    \/ Finish
    \/ Tick

Spec == Init /\ [][Next]_vars

\* every combination of flags and environment values, with one name at most
InitConfig ==
    \E fu \in ScalarInputs, eu \in ScalarInputs, fn \in ScalarInputs,
       en \in ScalarInputs, fp \in ScalarInputs, ep \in ScalarInputs,
       fr \in {NoneV, Some(<<<<"a">>>>), Some(<<<<>>>>)},
       er \in ScalarInputs :
        Start([artifactory_url |-> fu, username |-> fn, password |-> fp,
               repository_names |-> fr],
              [ARTIFACTORY_URL |-> eu, USERNAME |-> en, PASSWORD |-> ep,
               REPOSITORY_NAMES |-> er])

SpecConfig == InitConfig /\ [][Next]_vars

\* main after the first name's query returned the decoded body
StartData(body) ==
    LET c == get_configuration(NoFlags, AllSet)
    IN  /\ argv = NoFlags
        /\ environ = AllSet
        /\ config = c
        /\ pc = "returned"
        /\ idx = 1
        /\ result = body
        /\ df = NoFrame
        /\ status = <<[Pending EXCEPT !.resp = "ok", !.returned = body]>>
        /\ posts = <<[idx     |-> 1,
                      request |-> PostRequest(generate_aql_query(c.repository_names[1]),
                                              c.artifactory_url, c.username,
                                              c.password)]>>
        /\ files = <<>>
        /\ clock = 0
        /\ printed = <<Say("Processing repository", c.repository_names[1])>>

\* the pipeline on {}, and on result lists of each family
InitData ==
    \/ StartData(Some(EmptyDict))
    \/ \E family \in {"stats", "counts", "times", "layout"} :
          \E r \in DataResults(family) : StartData(Some([results |-> r]))

NextData ==
    \/ SkipReport
    \/ ProcessResults
    \/ RemoveTimezone
    \/ WriteToExcel
    \/ Finish

SpecData == InitData /\ [][NextData]_vars

-----------------------------------------------------------------------------
(* Properties of get_configuration and main, under SpecConfig *)

\* a value is missing (None) or empty after the flags and the environment
\* are merged; the list of names is empty when it has no entry
ConfigMissing ==
    LET args == parse_args(argv, environ)
    IN  \/ Falsy(args.artifactory_url)
        \/ Falsy(args.username)
        \/ Falsy(args.password)
        \/ args.repository_names.val = <<>>

\* C1: when, after merging flags and environment, the base URL, the user
\* name, the password or the list of repository names is missing or empty,
\* get_configuration raises ValueError, and main never issues a POST and
\* never writes a file: the run is at its start or ended by the error.
C1_NoRequestWhenConfigMissing ==
    ConfigMissing =>
        /\ posts = <<>>
        /\ files = <<>>
        /\ pc \in {"start", "config_error"}
        /\ (pc = "config_error" => config.exc = "ValueError")

\* the run aborted, with only the password missing
C1_Witness ==
    /\ pc = "config_error"
    /\ LET args == parse_args(argv, environ)
       IN  /\ Falsy(args.password)
           /\ ~Falsy(args.artifactory_url)
           /\ ~Falsy(args.username)
           /\ args.repository_names.val # <<>>

-----------------------------------------------------------------------------
(* Properties of the loop of main, under Spec *)

QueryFailed(i) == status[i].resp \in {"transport_error", "http_error"}

Written(i) == \E k \in DOMAIN files : files[k].idx = i

\* C2: when main has ended, for every name whose query failed, every later
\* name had its query issued, and its spreadsheet written when that query
\* succeeded.
C2_LaterNamesStillProcessed ==
    pc \in {"done", "raised"} =>
        \A i \in DOMAIN status :
            QueryFailed(i) =>
                \A j \in DOMAIN status :
                    j > i =>
                        /\ status[j].resp # "none"
                        /\ (status[j].resp = "ok" => Written(j))

\* C6 as claimed: no two report writes target the same file name.
C6_NoTwoWritesShareAFileName ==
    \A i \in DOMAIN files :
        \A j \in DOMAIN files :
            i # j => files[i].report.filename # files[j].report.filename

\* C6, amended: the file name is the repository name, "-", the minute of
\* the write, "-stats.xlsx"; two report writes target the same file name
\* exactly when they are for the same repository name in the same minute.
C6_SameFileIffSameNameAndMinute ==
    \A i \in DOMAIN files :
        /\ files[i].report.filename =
               config.repository_names[files[i].idx] \o <<"-">>
                   \o strftime(files[i].written_at) \o Suffix
        /\ \A j \in DOMAIN files :
              (files[i].report.filename = files[j].report.filename)
                  <=> /\ config.repository_names[files[i].idx]
                            = config.repository_names[files[j].idx]
                      /\ files[i].written_at = files[j].written_at

\* two reports written in the same minute for two different names
C6_Witness ==
    \E i \in DOMAIN files :
        \E j \in DOMAIN files :
            /\ i < j
            /\ files[i].written_at = files[j].written_at
            /\ config.repository_names[files[i].idx]
                   # config.repository_names[files[j].idx]

\* C9: the k-th POST is the one for the k-th name (one per entry, in list
\* order, none repeated after a failure); it is issued only after the report
\* of the name before was written or skipped; while a request is in flight
\* its name has no report; and a run that ends without an exception has
\* issued one POST per name.
C9_OnePostPerNameInOrder ==
    /\ \A k \in DOMAIN posts :
          /\ posts[k].idx = k
          /\ posts[k].request =
                 PostRequest(generate_aql_query(config.repository_names[k]),
                             config.artifactory_url, config.username,
                             config.password)
          /\ (k > 1 => status[k - 1].outcome \in {"written", "skipped"})
    /\ (pc = "awaiting" =>
          /\ idx = Len(posts)
          /\ status[idx].outcome = "pending"
          /\ ~Written(idx))
    /\ (pc = "done" => Len(posts) = Len(config.repository_names))

\* a finished run over three names, with a failed request that was not
\* retried and a report written after it
C9_Witness ==
    /\ pc = "done"
    /\ Len(posts) = 3
    /\ QueryFailed(1)
    /\ Written(2)

\* C10: a name whose query returned a decoded JSON object is never skipped:
\* its report is generated whatever the object holds.
C10_SkippedOnlyAfterFailedQuery ==
    \A i \in DOMAIN status :
        (status[i].resp = "ok" /\ status[i].returned.some) =>
            status[i].outcome # "skipped"

-----------------------------------------------------------------------------
(* Properties of the pipeline, under SpecData *)

Items(body) == Get(body.val, "results", <<>>)

ZeroItems(body) ==
    body.some /\ "results" \in DOMAIN body.val /\ body.val.results = <<>>

\* C3: a response with zero items raises nowhere in the pipeline, and its
\* report has no data row, zero-downloads 0 and empty group-by tables.
C3_ZeroItemsGiveAnEmptyReport ==
    \A i \in DOMAIN status :
        ZeroItems(status[i].returned) =>
            /\ status[i].outcome # "raised"
            /\ (status[i].outcome = "written" =>
                  \E k \in DOMAIN files :
                      /\ files[k].idx = i
                      /\ files[k].report.data.rows = <<>>
                      /\ files[k].report.summary.Zero_Downloads = 0
                      /\ files[k].report.yearly_summary = {}
                      /\ files[k].report.monthly_uploads = {}
                      /\ files[k].report.uploads_by_user = {})

NoStatEntry(item) == "stats" \notin DOMAIN item \/ item.stats = <<>>

\* C4: process_results does not raise on an item with no usage-stat entry
\* (no stats key, or an empty stats list), and gives its row downloads 0 and
\* "N/A" twice; the row of an item with an entry carries the entry's values.
C4_NoStatEntryGivesDefaults ==
    /\ \A i \in DOMAIN status :
          (/\ Truthy(status[i].returned)
           /\ \E r \in DOMAIN Items(status[i].returned) :
                 NoStatEntry(Items(status[i].returned)[r]))
              => status[i].exc # "IndexError"
    /\ (pc = "processed" =>
          \A r \in DOMAIN Items(result) :
              LET item == Items(result)[r]
                  row  == df.rows[r]
              IN  IF NoStatEntry(item)
                  THEN /\ row.downloads = 0
                       /\ row.downloaded_by = "N/A"
                       /\ row.last_downloaded = "N/A"
                  ELSE LET e == item.stats[1]
                       IN  /\ "downloads" \in DOMAIN e
                                 => row.downloads = e.downloads
                           /\ "downloaded_by" \in DOMAIN e
                                 => row.downloaded_by = e.downloaded_by
                           /\ "downloaded" \in DOMAIN e
                                 => row.last_downloaded = e.downloaded)

\* the bucket the claim gives a download count, "NaN" for none
ClaimedBucket(d) ==
    IF d \in 1..10 THEN "1-10"
    ELSE IF d \in 11..20 THEN "11-20"
    ELSE IF d \in 21..30 THEN "21-30"
    ELSE IF d \in 31..40 THEN "31-40"
    ELSE IF d \in 41..50 THEN "41-50"
    ELSE IF d > 50 THEN "50+"
    ELSE "NaN"

RECURSIVE SumCounts(_)
SumCounts(table) ==
    IF table = <<>> THEN 0 ELSE Head(table).Count + SumCounts(Tail(table))

\* C5: in every report, the histogram has the six labels, each counting the
\* rows whose download count is in its range (1..10, 11..20, 21..30, 31..40,
\* 41..50, above 50); the rows with 0 downloads are in no bucket and are the
\* Zero Downloads count; the seven counts add up to the number of rows.
C5_HistogramCountsEachRowOnce ==
    \A k \in DOMAIN files :
        LET rep  == files[k].report
            rows == rep.data.rows
            hist == rep.download_summary
        IN  /\ [i \in DOMAIN hist |-> hist[i].downloads] = Labels
            /\ \A i \in DOMAIN hist :
                  hist[i].Count =
                      Cardinality({r \in DOMAIN rows :
                          ClaimedBucket(rows[r].downloads) = hist[i].downloads})
            /\ rep.summary.Zero_Downloads =
                   Cardinality({r \in DOMAIN rows : rows[r].downloads = 0})
            /\ \A r \in DOMAIN rows :
                  rows[r].downloads = 0 <=> ClaimedBucket(rows[r].downloads) = "NaN"
            /\ SumCounts(hist) + rep.summary.Zero_Downloads = Len(rows)

\* a report over an item with 10 downloads and an item with 11
C5_Witness ==
    \E k \in DOMAIN files :
        LET rows == files[k].report.data.rows
        IN  /\ \E r \in DOMAIN rows : rows[r].downloads = 10
            /\ \E r \in DOMAIN rows : rows[r].downloads = 11

Unparsable(c) == c.k \in {"None", "str_bad"}

\* C7: on the table remove_timezone returned, remove_timezone raises nothing
\* and returns the same created and modified values; a value that did not
\* parse is NaT after the first application and after the second.
C7_RemoveTimezoneIdempotent ==
    pc = "normalized" =>
        LET again == remove_timezone(df)
        IN  /\ again.exc = ""
            /\ Len(again.df.rows) = Len(df.rows)
            /\ \A r \in DOMAIN df.rows :
                  LET item == Items(result)[r]
                  IN  /\ again.df.rows[r].created = df.rows[r].created
                      /\ again.df.rows[r].modified = df.rows[r].modified
                      /\ Unparsable(Get(item, "created", NoneCell))
                            => /\ df.rows[r].created = NaT
                               /\ again.df.rows[r].created = NaT
                      /\ Unparsable(Get(item, "modified", NoneCell))
                            => /\ df.rows[r].modified = NaT
                               /\ again.df.rows[r].modified = NaT

\* a table with a timezone-aware value made naive and a value that did not
\* parse
C7_Witness ==
    /\ pc = "normalized"
    /\ \E r \in DOMAIN df.rows :
          LET raw == Get(Items(result)[r], "modified", NoneCell)
          IN  /\ raw.k = "str"
              /\ raw.aware
              /\ df.rows[r].modified = Timestamp(FALSE, 0, raw.wall)
    /\ \E r \in DOMAIN df.rows :
          Get(Items(result)[r], "created", NoneCell) = BadStr

\* the last row a table written at startrow `start` occupies: its header
\* row and `n` rows under it
LastRow(start, n) == start + n

\* C8: on the Summary sheet the key-metric block, the histogram, the yearly,
\* the monthly and the per-uploader table start in that order, each below the
\* last row of the one before, header rows counted.
C8_SummaryBlocksDoNotOverlap ==
    \A k \in DOMAIN files :
        LET rep == files[k].report
            s   == rep.startrow
        IN  /\ s.summary = 0
            /\ s.download > LastRow(s.summary, Cardinality(DOMAIN rep.summary))
            /\ s.yearly > LastRow(s.download, Len(rep.download_summary))
            /\ s.monthly > LastRow(s.yearly, Cardinality(rep.yearly_summary))
            /\ s.by_user > LastRow(s.monthly, Cardinality(rep.monthly_uploads))

\* a report with two years, three months and two uploaders
C8_Witness ==
    \E k \in DOMAIN files :
        /\ Cardinality(files[k].report.yearly_summary) = 2
        /\ Cardinality(files[k].report.monthly_uploads) = 3
        /\ Cardinality(files[k].report.uploads_by_user) = 2

\* a report whose yearly and monthly tables have no row
C8_EmptyTables ==
    \E k \in DOMAIN files :
        /\ files[k].report.yearly_summary = {}
        /\ files[k].report.monthly_uploads = {}

====
